---- MODULE Spec2Model ----
(***************************************************************************)
(* A model of the terminal emulator of src/main.py: the TerminalWidget's   *)
(* session state (current_dir, command_history, history_index), its output *)
(* pane, input field, prompt and monitor labels, the host filesystem the    *)
(* built-ins act on, and one action per event handler: execute_command      *)
(* (Return pressed), keyPressEvent (Up / Down) and update_system_monitor    *)
(* (the 2 s timer).  All of them run on the one GUI thread, from the event   *)
(* loop of app.exec_(); communicate is that thread coming back from the      *)
(* blocking wait for a subprocess.                                          *)
(*                                                                          *)
(* Text is a sequence of atoms.  Everything the user types, and every path, *)
(* is a sequence of one-character strings, so strip(), lower(),             *)
(* startswith(), slicing, shlex.split() and the os.path functions are       *)
(* computed character by character as Python computes them.  The literal    *)
(* parts of the program's f-strings ("Error: Directory not found: ", ...)   *)
(* are kept as one atom each.                                               *)
(***************************************************************************)
EXTENDS Integers, Sequences, FiniteSets, TLC

VARIABLES
    current_dir,      \* self.current_dir: text of an absolute path
    command_history,  \* self.command_history: sequence of lines
    history_index,    \* self.history_index
    output_area,      \* self.output_area: the paragraphs appended so far
    input_field,      \* self.input_field: its text
    prompt_label,     \* self.prompt_label: the directory part of the prompt
    monitor_label,    \* self.monitor_label: its text
    dirs,             \* host filesystem: the directories, as component lists
    files,            \* host filesystem: the files, as component lists
    quit,             \* QApplication.quit() was called: the event loop has ended
    pc,               \* where the GUI thread is: "exec_", in the event loop of
                      \* app.exec_(), or "communicate", inside execute_command and
                      \* blocked in process.communicate()
    submits,          \* number of returnPressed signals handled so far
    last              \* the latest execute_command call: the text it read, the
                      \* method it dispatched to, the subprocess it ran

vars == <<current_dir, command_history, history_index, output_area, input_field,
          prompt_label, monitor_label, dirs, files, quit, pc, submits, last>>

\* The number of Return presses a run of the model follows.
MaxSubmits == 2

---------------------------------------------------------------------------
(* str helpers *)

Whitespace == {" ", "\t"}

RECURSIVE lstrip(_)
lstrip(s) == IF s # <<>> /\ Head(s) \in Whitespace THEN lstrip(Tail(s)) ELSE s

RECURSIVE rstrip(_)
rstrip(s) ==
    IF s # <<>> /\ s[Len(s)] \in Whitespace THEN rstrip(SubSeq(s, 1, Len(s) - 1)) ELSE s

\* strip() left out: the line is taken as typed
strip_missing(s) == s

\* str.strip()
strip(s) == rstrip(lstrip(s))

LowerOf ==
    ("A" :> "a") @@ ("B" :> "b") @@ ("C" :> "c") @@ ("D" :> "d") @@ ("E" :> "e") @@
    ("F" :> "f") @@ ("G" :> "g") @@ ("H" :> "h") @@ ("I" :> "i") @@ ("J" :> "j") @@
    ("K" :> "k") @@ ("L" :> "l") @@ ("M" :> "m") @@ ("N" :> "n") @@ ("O" :> "o") @@
    ("P" :> "p") @@ ("Q" :> "q") @@ ("R" :> "r") @@ ("S" :> "s") @@ ("T" :> "t") @@
    ("U" :> "u") @@ ("V" :> "v") @@ ("W" :> "w") @@ ("X" :> "x") @@ ("Y" :> "y") @@
    ("Z" :> "z")

\* lower() left out: the comparison is case-sensitive
lower_missing(s) == s

\* str.lower()
lower(s) == [i \in 1..Len(s) |-> IF s[i] \in DOMAIN LowerOf THEN LowerOf[s[i]] ELSE s[i]]

\* str.startswith(p)
startswith(s, p) == Len(s) >= Len(p) /\ SubSeq(s, 1, Len(p)) = p

\* s[n:]
from(s, n) == SubSeq(s, n + 1, Len(s))

\* xs[i], Python's indexing: from 0, a negative index counting from the end
item(xs, i) == IF i < 0 THEN xs[Len(xs) + i + 1] ELSE xs[i + 1]

\* str.split(sep) for a one-character sep: the pieces between the separators
RECURSIVE split(_, _)
split(s, sep) ==
    IF \A i \in 1..Len(s) : s[i] # sep THEN <<s>>
    ELSE LET k == CHOOSE i \in 1..Len(s) : s[i] = sep /\ \A j \in 1..(i - 1) : s[j] # sep
         IN  <<SubSeq(s, 1, k - 1)>> \o split(SubSeq(s, k + 1, Len(s)), sep)

\* sep.join(parts)
RECURSIVE join(_, _)
join(parts, sep) ==
    IF parts = <<>> THEN <<>>
    ELSE IF Len(parts) = 1 THEN parts[1]
    ELSE parts[1] \o <<sep>> \o join(Tail(parts), sep)

\* str(n) for n >= 0: the decimal digits
Digit == <<"0", "1", "2", "3", "4", "5", "6", "7", "8", "9">>

RECURSIVE str(_)
str(n) == IF n < 10 THEN <<Digit[n + 1]>> ELSE str(n \div 10) \o <<Digit[(n % 10) + 1]>>

\* s.ljust(w): s padded with spaces on the right to width w (atoms count as one column)
RECURSIVE ljust(_, _)
ljust(s, w) == IF Len(s) >= w THEN s ELSE ljust(s \o <<" ">>, w)

---------------------------------------------------------------------------
(* os.path (posixpath), on text *)

Sep == "/"

\* The process's working directory when the program starts (os.getcwd()).
StartDir == <<"/", "w">>

\* os.path.expanduser("~"): the user's home directory
HomeDir == <<"/", "h">>

isabs(p) == startswith(p, <<Sep>>)

\* os.path.join(a, b)
os_path_join(a, b) ==
    IF startswith(b, <<Sep>>) THEN b
    ELSE IF a = <<>> \/ a[Len(a)] = Sep THEN a \o b
    ELSE a \o <<Sep>> \o b

\* the loop of posixpath.normpath over the components
RECURSIVE norm_comps(_, _, _)
norm_comps(comps, initial_slashes, new_comps) ==
    IF comps = <<>> THEN new_comps
    ELSE LET comp == Head(comps)
         IN  IF comp \in {<<>>, <<".">>} THEN norm_comps(Tail(comps), initial_slashes, new_comps)
             ELSE IF \/ comp # <<".", ".">>
                     \/ (initial_slashes = 0 /\ new_comps = <<>>)
                     \/ (new_comps # <<>> /\ new_comps[Len(new_comps)] = <<".", ".">>)
                  THEN norm_comps(Tail(comps), initial_slashes, Append(new_comps, comp))
             ELSE IF new_comps # <<>>
                  THEN norm_comps(Tail(comps), initial_slashes,
                                  SubSeq(new_comps, 1, Len(new_comps) - 1))
             ELSE norm_comps(Tail(comps), initial_slashes, new_comps)

\* posixpath.normpath: one or two leading slashes are kept, three or more are one
normpath(path) ==
    IF path = <<>> THEN <<".">>
    ELSE LET initial_slashes ==
                 IF ~startswith(path, <<Sep>>) THEN 0
                 ELSE IF startswith(path, <<Sep, Sep>>) /\ ~startswith(path, <<Sep, Sep, Sep>>)
                      THEN 2
                 ELSE 1
             comps == norm_comps(split(path, Sep), initial_slashes, <<>>)
             body == join(comps, Sep)
             res == [i \in 1..initial_slashes |-> Sep] \o body
         IN  IF res = <<>> THEN <<".">> ELSE res

\* os.path.abspath
abspath(path) == normpath(IF isabs(path) THEN path ELSE os_path_join(StartDir, path))

\* the index after the last separator of p (p.rfind(sep) + 1)
after_last_sep(p) ==
    IF \A i \in 1..Len(p) : p[i] # Sep THEN 0
    ELSE CHOOSE i \in 1..Len(p) : p[i] = Sep /\ \A j \in (i + 1)..Len(p) : p[j] # Sep

\* os.path.basename
basename(p) == from(p, after_last_sep(p))

RECURSIVE rstrip_sep(_)
rstrip_sep(s) ==
    IF s # <<>> /\ s[Len(s)] = Sep THEN rstrip_sep(SubSeq(s, 1, Len(s) - 1)) ELSE s

\* os.path.dirname
dirname(p) ==
    LET head == SubSeq(p, 1, after_last_sep(p))
    IN  IF head # <<>> /\ (\E i \in 1..Len(head) : head[i] # Sep) THEN rstrip_sep(head)
        ELSE head

---------------------------------------------------------------------------
(* The host filesystem: a tree of directories and of files, each named by    *)
(* its list of components from the root (<<>> is the root).  A file is a    *)
(* regular file unless it is one of Fifos, a named pipe.  No symbolic       *)
(* links, and the user may read and write everything.                       *)

parent(node) == IF node = <<>> THEN node ELSE SubSeq(node, 1, Len(node) - 1)

under(node, anc) == Len(node) >= Len(anc) /\ SubSeq(node, 1, Len(anc)) = anc

NoNode == [kind |-> "none", node |-> <<>>]

\* the files that are named pipes (made with mkfifo) rather than regular files:
\* os.path.isfile and os.path.isdir are both False for them
Fifos == { << <<"h">>, <<"s">> >> }

\* the kernel's walk of the components of a path from `node`
RECURSIVE walk(_, _, _, _)
walk(D, F, node, comps) ==
    IF comps = <<>>
    THEN IF node \in D THEN [kind |-> "dir", node |-> node]
         ELSE IF node \in F
         THEN [kind |-> IF node \in Fifos THEN "fifo" ELSE "file", node |-> node]
         ELSE NoNode
    ELSE IF node \notin D THEN NoNode
    ELSE LET c == Head(comps)
         IN  IF c \in {<<>>, <<".">>} THEN walk(D, F, node, Tail(comps))
             ELSE IF c = <<".", ".">> THEN walk(D, F, parent(node), Tail(comps))
             ELSE walk(D, F, node \o <<c>>, Tail(comps))

\* the node of the process's working directory
StartNode == norm_comps(split(StartDir, Sep), 1, <<>>)

\* what the kernel finds at path p (stat)
lookup(D, F, p) ==
    IF p = <<>> THEN NoNode
    ELSE walk(D, F, IF isabs(p) THEN <<>> ELSE StartNode, split(p, Sep))

isdir(D, F, p) == lookup(D, F, p).kind = "dir"
isfile(D, F, p) == lookup(D, F, p).kind = "file"
exists(D, F, p) == lookup(D, F, p).kind # "none"

\* where a new entry named by p would go: the directory holding it and its name;
\* ok is false when that directory is missing or the name is empty, "." or ".."
slot_in(dir, name) ==
    [ok |-> dir.kind = "dir" /\ name \notin {<<>>, <<".">>, <<".", ".">>},
     node |-> dir.node \o <<name>>]

slot_of(D, F, q) == slot_in(lookup(D, F, IF dirname(q) = <<>> THEN <<".">> ELSE dirname(q)),
                            basename(q))

slot(D, F, p) == slot_of(D, F, rstrip_sep(p))

\* os.mkdir(p)
mkdir_at(D, found, new) ==
    IF ~found /\ new.ok THEN [ok |-> TRUE, dirs |-> D \cup {new.node}]
    ELSE [ok |-> FALSE, dirs |-> D]

mkdir(D, F, p) == mkdir_at(D, exists(D, F, p), slot(D, F, p))

\* os.path.split(name), and once more on the head when the tail is empty
\* ("if not tail: head, tail = path.split(head)")
makedirs_split(name) ==
    LET i == after_last_sep(name)
        h0 == SubSeq(name, 1, i)
        h1 == IF h0 # <<>> /\ (\E k \in 1..Len(h0) : h0[k] # Sep) THEN rstrip_sep(h0) ELSE h0
    IN  IF i < Len(name) THEN [head |-> h1, tail |-> from(name, i)]
        ELSE [head |-> dirname(h1), tail |-> basename(h1)]

\* makedirs without exist_ok: an existing directory is an error
makedirs_leaf_strict(F, name, up, made) ==
    IF made.ok THEN made ELSE [ok |-> FALSE, dirs |-> up.dirs, went |-> FALSE]

\* the last step of makedirs: mkdir(name), an existing directory being fine
makedirs_leaf(F, name, up, made) ==
    IF made.ok THEN made ELSE [ok |-> isdir(up.dirs, F, name), dirs |-> up.dirs, went |-> FALSE]

RECURSIVE makedirs(_, _, _)

\* "if head and tail and not path.exists(head): makedirs(head)"
makedirs_head(D, F, ht) ==
    IF ht.head # <<>> /\ ht.tail # <<>> /\ ~exists(D, F, ht.head)
    THEN [makedirs(D, F, ht.head) EXCEPT !.went = TRUE]
    ELSE [ok |-> TRUE, dirs |-> D, went |-> FALSE]

makedirs_tail(F, name, ht, up) ==
    IF ~up.ok \/ (up.went /\ ht.tail = <<".">>) THEN up
    ELSE makedirs_leaf(F, name, up, mkdir(up.dirs, F, name) @@ [went |-> FALSE])

makedirs_from(D, F, name, ht) == makedirs_tail(F, name, ht, makedirs_head(D, F, ht))

\* os.makedirs(name, exist_ok=True)
makedirs(D, F, name) == makedirs_from(D, F, name, makedirs_split(name))

\* the tree at `node` moved (or copied) to `to`
moved(S, node, to) == {to \o from(n, Len(node)) : n \in {m \in S : under(m, node)}}

---------------------------------------------------------------------------
(* shlex.split(s): POSIX word splitting with quotes and backslash escapes.  *)
(* st is the lexer's state: " " between words, "a" in a word, a quote       *)
(* character inside quotes, "\\" after a backslash (esc: the state to       *)
(* return to).  The result is the words, or ok = FALSE for the ValueError   *)
(* of an unclosed quotation or a trailing backslash.                        *)

Quotes == {"'", "\""}

RECURSIVE shlex_run(_, _, _, _, _)
shlex_run(s, st, esc, tok, toks) ==
    IF s = <<>>
    THEN IF st \in Quotes \/ st = "\\" THEN [ok |-> FALSE, parts |-> <<>>]
         ELSE IF st = "a" THEN [ok |-> TRUE, parts |-> Append(toks, tok)]
         ELSE [ok |-> TRUE, parts |-> toks]
    ELSE LET c == Head(s)
             r == Tail(s)
         IN  IF st = " "
             THEN IF c \in Whitespace THEN shlex_run(r, " ", esc, <<>>, toks)
                  ELSE IF c = "\\" THEN shlex_run(r, "\\", "a", <<>>, toks)
                  ELSE IF c \in Quotes THEN shlex_run(r, c, esc, <<>>, toks)
                  ELSE shlex_run(r, "a", esc, <<c>>, toks)
             ELSE IF st \in Quotes
             THEN IF c = st THEN shlex_run(r, "a", esc, tok, toks)
                  ELSE IF st = "\"" /\ c = "\\" THEN shlex_run(r, "\\", st, tok, toks)
                  ELSE shlex_run(r, st, esc, Append(tok, c), toks)
             ELSE IF st = "\\"
             THEN IF esc \in Quotes /\ c # "\\" /\ c # esc
                  THEN shlex_run(r, esc, esc, tok \o <<"\\", c>>, toks)
                  ELSE shlex_run(r, esc, esc, Append(tok, c), toks)
             ELSE \* st = "a"
                  IF c \in Whitespace THEN shlex_run(r, " ", esc, <<>>, Append(toks, tok))
                  ELSE IF c \in Quotes THEN shlex_run(r, c, esc, tok, toks)
                  ELSE IF c = "\\" THEN shlex_run(r, "\\", "a", tok, toks)
                  ELSE shlex_run(r, "a", esc, Append(tok, c), toks)

\* the command cut at its blanks, quotes meaning nothing
shlex_split_blanks(s) == [ok |-> TRUE, parts |-> split(s, " ")]

shlex_split(s) == shlex_run(s, " ", "a", <<>>, <<>>)

---------------------------------------------------------------------------
(* The built-ins.  Each is the method of TerminalWidget of the same name,   *)
(* reading self.* (the unprimed variables) and giving the set of outcomes   *)
(* it can have: the paragraphs it appends to the output pane (out) and the  *)
(* values it leaves in current_dir (dir), the prompt and the filesystem     *)
(* (D, F); process tells whether it called subprocess.Popen ("none" when   *)
(* it did not, "failed" when Popen raised, "started" when the process was   *)
(* spawned, and then "done" once communicate() has returned); stdout and    *)
(* stderr are what communicate() captured.                                  *)

Same == [dir |-> current_dir, prompt |-> prompt_label, out |-> <<>>,
         D |-> dirs, F |-> files, process |-> "none", stdout |-> <<>>, stderr |-> <<>>]

\* str(e) of the exception an operation raised
errtext(what) == <<"Error: ", what>>

Login == "user"

\* update_prompt: the text it gives the prompt label
update_prompt(dir) ==
    LET dir_name == IF basename(dir) = <<>> THEN <<"/">> ELSE basename(dir)
    IN  <<Login, "@pyterm:">> \o dir_name \o <<"$ ">>

\* the error naming the resolved directory instead of the path as typed
change_directory_to_resolved(p, new_dir) ==
    IF isdir(dirs, files, new_dir)
    THEN {[Same EXCEPT !.dir = new_dir, !.prompt = update_prompt(new_dir)]}
    ELSE {[Same EXCEPT !.out = << <<"Error: Directory not found: ">> \o new_dir >>]}

\* change_directory once the path is resolved: p is the path it names in its
\* error, new_dir the directory it moves to
change_directory_to(p, new_dir) ==
    IF isdir(dirs, files, new_dir)
    THEN {[Same EXCEPT !.dir = new_dir, !.prompt = update_prompt(new_dir)]}
    ELSE {[Same EXCEPT !.out = << <<"Error: Directory not found: ">> \o p >>]}

\* os.path.abspath left out: the joined path is kept as it is
change_directory_path_joined(p) == change_directory_to(p, os_path_join(current_dir, p))

\* "if not path: path = os.path.expanduser('~')"
change_directory_path(p) == change_directory_to(p, abspath(os_path_join(current_dir, p)))

change_directory(path) == change_directory_path(IF path = <<>> THEN HomeDir ELSE path)

print_working_directory == {[Same EXCEPT !.out = <<current_dir>>]}

make_directory_made(path, made) ==
    IF made.ok
    THEN {[Same EXCEPT !.D = made.dirs, !.out = << <<"Created directory: ">> \o path >>]}
    ELSE {[Same EXCEPT !.D = made.dirs, !.out = <<errtext("[Errno] mkdir")>>]}

make_directory(path) ==
    IF path = <<>> THEN {[Same EXCEPT !.out = << <<"Error: mkdir requires a directory name">> >>]}
    ELSE make_directory_made(path, makedirs(dirs, files, os_path_join(current_dir, path)))

\* rm of a directory also moving the session to the directory that held it
remove_at_leaving(path, at) ==
    IF at.kind = "dir"
    THEN IF at.node = <<>>
         THEN {[Same EXCEPT !.D = {<<>>}, !.F = {}, !.out = <<errtext("[Errno] rmtree")>>]}
         ELSE {[Same EXCEPT !.D = {n \in dirs : ~under(n, at.node)},
                            !.F = {n \in files : ~under(n, at.node)},
                            !.dir = dirname(os_path_join(current_dir, path)),
                            !.out = << <<"Removed directory: ">> \o path >>]}
    ELSE IF at.kind \in {"file", "fifo"}
    THEN {[Same EXCEPT !.F = files \ {at.node}, !.out = << <<"Removed file: ">> \o path >>]}
    ELSE {[Same EXCEPT !.out = <<errtext("[Errno] remove")>>]}

\* remove_file_or_dir once full_path is looked up: shutil.rmtree for a directory
\* (everything under it goes; the root itself cannot), os.remove otherwise
remove_at(path, at) ==
    IF at.kind = "dir"
    THEN IF at.node = <<>>
         THEN {[Same EXCEPT !.D = {<<>>}, !.F = {}, !.out = <<errtext("[Errno] rmtree")>>]}
         ELSE {[Same EXCEPT !.D = {n \in dirs : ~under(n, at.node)},
                            !.F = {n \in files : ~under(n, at.node)},
                            !.out = << <<"Removed directory: ">> \o path >>]}
    ELSE IF at.kind \in {"file", "fifo"}
    THEN {[Same EXCEPT !.F = files \ {at.node}, !.out = << <<"Removed file: ">> \o path >>]}
    ELSE {[Same EXCEPT !.out = <<errtext("[Errno] remove")>>]}

remove_file_or_dir(path) ==
    IF path = <<>> THEN {[Same EXCEPT !.out = << <<"Error: rm requires a path">> >>]}
    ELSE remove_at(path, lookup(dirs, files, os_path_join(current_dir, path)))

\* shutil.copy2 once its paths are looked up: from is the source, to the
\* destination, new the place of a destination that does not exist yet
copy2_at(from_, to, new) ==
    IF from_.kind # "file" THEN [ok |-> FALSE, F |-> files]
    ELSE IF to.kind = "file" THEN [ok |-> to.node # from_.node, F |-> files]
    ELSE IF to.kind = "none" /\ new.ok THEN [ok |-> TRUE, F |-> files \cup {new.node}]
    ELSE [ok |-> FALSE, F |-> files]

copy2_to(src, real_dst) ==
    copy2_at(lookup(dirs, files, src), lookup(dirs, files, real_dst),
             slot(dirs, files, real_dst))

\* shutil.copy2(src, dst) for src not a directory
copy2(src, dst) ==
    copy2_to(src, IF isdir(dirs, files, dst) THEN os_path_join(dst, basename(src)) ELSE dst)

copytree_at(found, made, node, to) ==
    IF found \/ ~made.ok \/ under(to, node)
    THEN [ok |-> FALSE, D |-> dirs, F |-> files]
    ELSE \* a named pipe in the tree is not copied, and copytree raises at its end
         [ok |-> \A n \in files : under(n, node) => n \notin Fifos,
          D |-> made.dirs \cup moved(dirs, node, to),
          F |-> files \cup moved(files \ Fifos, node, to)]

copytree_made(src, dst, made) ==
    copytree_at(exists(dirs, files, dst), made, lookup(dirs, files, src).node,
                lookup(made.dirs, files, dst).node)

\* shutil.copytree(src, dst) for src a directory: dst must not exist
copytree(src, dst) == copytree_made(src, dst, makedirs(dirs, files, dst))

copy_tree_done(a, b, tree) ==
    IF tree.ok
    THEN {[Same EXCEPT !.D = tree.D, !.F = tree.F,
               !.out = << <<"Copied directory: ">> \o a \o <<" to ">> \o b >>]}
    ELSE {[Same EXCEPT !.D = tree.D, !.F = tree.F, !.out = <<errtext("[Errno] copytree")>>]}

copy_file_done(a, b, one) ==
    IF one.ok
    THEN {[Same EXCEPT !.F = one.F, !.out = << <<"Copied file: ">> \o a \o <<" to ">> \o b >>]}
    ELSE {[Same EXCEPT !.out = <<errtext("[Errno] copy2")>>]}

copy_paths(a, b, src, dst) ==
    IF isdir(dirs, files, src) THEN copy_tree_done(a, b, copytree(src, dst))
    ELSE copy_file_done(a, b, copy2(src, dst))

\* copy_file_or_dir once the command is split
copy_parts(sp) ==
    IF ~sp.ok THEN {[Same EXCEPT !.out = <<errtext("No closing quotation")>>]}
    ELSE IF Len(sp.parts) < 3
    THEN {[Same EXCEPT !.out = << <<"Error: cp requires source and destination">> >>]}
    ELSE copy_paths(sp.parts[2], sp.parts[3], os_path_join(current_dir, sp.parts[2]),
                    os_path_join(current_dir, sp.parts[3]))

copy_file_or_dir(command) == copy_parts(shlex_split(command))

\* os.rename(src, real_dst) and its outcome in shutil.move: at is the source,
\* to the destination, target the node the source becomes
rename_at(at, to, target) ==
    IF at.kind \in {"file", "fifo"}
    THEN IF to.kind = "dir" THEN [ok |-> FALSE, D |-> dirs, F |-> files]
         ELSE [ok |-> TRUE, D |-> dirs, F |-> (files \ {at.node}) \cup {target}]
    ELSE \* a directory: not onto a file, a non-empty directory or into itself
         IF \/ to.kind \in {"file", "fifo"}
            \/ under(target, at.node)
            \/ (to.kind = "dir" /\ \E n \in dirs \cup files : n # target /\ under(n, target))
         THEN [ok |-> FALSE, D |-> dirs, F |-> files]
         ELSE [ok |-> TRUE,
               D |-> {n \in dirs : ~under(n, at.node)} \cup moved(dirs, at.node, target),
               F |-> {n \in files : ~under(n, at.node)} \cup moved(files, at.node, target)]

move_at(into, at, onto, to, new) ==
    IF into /\ at.kind = "dir" /\ at.node = onto.node THEN [ok |-> TRUE, D |-> dirs, F |-> files]
    ELSE IF \/ (into /\ to.kind # "none")
            \/ at.kind = "none" \/ at.node = <<>>
            \/ (to.kind = "none" /\ ~new.ok)
    THEN [ok |-> FALSE, D |-> dirs, F |-> files]
    ELSE rename_at(at, to, IF to.kind = "none" THEN new.node ELSE to.node)

move_to(src, dst, into, real_dst) ==
    move_at(into, lookup(dirs, files, src), lookup(dirs, files, dst),
            lookup(dirs, files, real_dst), slot(dirs, files, real_dst))

move_into(src, dst, into) ==
    move_to(src, dst, into,
            IF into THEN os_path_join(dst, basename(rstrip_sep(src))) ELSE dst)

\* shutil.move(src, dst)
shutil_move(src, dst) == move_into(src, dst, isdir(dirs, files, dst))

move_done(a, b, mv) ==
    IF mv.ok
    THEN {[Same EXCEPT !.D = mv.D, !.F = mv.F,
               !.out = << <<"Moved: ">> \o a \o <<" to ">> \o b >>]}
    ELSE {[Same EXCEPT !.out = <<errtext("[Errno] move")>>]}

\* move_file_or_dir once the command is split
move_parts(sp) ==
    IF ~sp.ok THEN {[Same EXCEPT !.out = <<errtext("No closing quotation")>>]}
    ELSE IF Len(sp.parts) < 3
    THEN {[Same EXCEPT !.out = << <<"Error: mv requires source and destination">> >>]}
    ELSE move_done(sp.parts[2], sp.parts[3],
                   shutil_move(os_path_join(current_dir, sp.parts[2]),
                               os_path_join(current_dir, sp.parts[3])))

move_file_or_dir(command) == move_parts(shlex_split(command))

\* the names in the directory at `node`
children(D, F, node) == {n[Len(n)] : n \in {m \in D \cup F : m # <<>> /\ parent(m) = node}}

\* the orders in which a set of names can be listed
orders(names, k) == {f \in [1..k -> names] : \A i, j \in 1..k : i # j => f[i] # f[j]}

\* os.listdir(path): the names in the directory, in an order the host chooses
listdir(D, F, path) ==
    orders(children(D, F, lookup(D, F, path).node),
           Cardinality(children(D, F, lookup(D, F, path).node)))

\* [x for x in xs if x in S]
RECURSIVE select(_, _)
select(xs, S) ==
    IF xs = <<>> THEN <<>>
    ELSE (IF Head(xs) \in S THEN <<Head(xs)>> ELSE <<>>) \o select(Tail(xs), S)

range(xs) == {xs[i] : i \in 1..Len(xs)}

\* the width of the output pane the columns of ls are packed into
Columns == 80

\* max([len(f) for f in xs] + [0])
maxlen(xs) == IF xs = <<>> THEN 0 ELSE CHOOSE n \in {Len(xs[i]) : i \in 1..Len(xs)} :
                                           \A i \in 1..Len(xs) : Len(xs[i]) <= n

\* one of the two loops that pack names into rows: st = [line, out]
RECURSIVE pack(_, _, _, _, _, _)
pack(names, i, suffix, max_len, per_line, st) ==
    IF i > Len(names) THEN st
    ELSE IF i % per_line = 0
    THEN pack(names, i + 1, suffix, max_len, per_line,
              [line |-> <<>>,
               out |-> Append(st.out, st.line \o ljust(names[i] \o suffix, max_len))])
    ELSE pack(names, i + 1, suffix, max_len, per_line,
              [line |-> st.line \o ljust(names[i] \o suffix, max_len), out |-> st.out])

\* "if line: self.output_area.append(line)"
flush(st) == IF st.line # <<>> THEN Append(st.out, st.line) ELSE st.out

columns_packed(ds, rs, max_len, per_line) ==
    flush(pack(rs, 1, <<>>, max_len, per_line,
               pack(ds, 1, <<"/">>, max_len, per_line, [line |-> <<>>, out |-> <<>>])))

columns_of(ds, rs, max_len) ==
    columns_packed(ds, rs, max_len, IF Columns \div max_len > 1 THEN Columns \div max_len ELSE 1)

\* "max_len = max([len(f) for f in files + dirs] + [0]) + 2", files and dirs
\* being the regular files and the directories picked from the entries
columns_lists(ds, rs) == columns_of(ds, rs, maxlen(rs \o ds) + 2)

\* the short listing: directories first, then regular files, packed into columns
columns(path, fs) ==
    columns_lists(select(fs, {f \in range(fs) : isdir(dirs, files, os_path_join(path, f))}),
                  select(fs, {f \in range(fs) : isfile(dirs, files, os_path_join(path, f))}))

\* the line ls -l gives an entry: its type, then what stat and access report
detail(D, F, full_path, name) ==
    <<IF isfile(D, F, full_path) THEN "-" ELSE "d", "rwx <size> <mtime> ">> \o name

\* the listing of the entries fs of the directory at path
listing(path, long_format, fs) ==
    IF long_format
    THEN [i \in 1..Len(fs) |-> detail(dirs, files, os_path_join(path, fs[i]), fs[i])]
    ELSE columns(path, fs)

\* "files = [f for f in files if not f.startswith('.')]"
shown(show_all, listed) ==
    IF show_all THEN listed
    ELSE select(listed, {f \in range(listed) : ~startswith(f, <<".">>)})

list_path(path, show_all, long_format) ==
    IF ~exists(dirs, files, path)
    THEN {[Same EXCEPT !.out = << <<"Error: Path not found: ">> \o path >>]}
    ELSE IF isfile(dirs, files, path)
    THEN {[Same EXCEPT !.out = <<detail(dirs, files, path, basename(path))>>]}
    ELSE IF ~isdir(dirs, files, path)
    THEN {[Same EXCEPT !.out = <<errtext("[Errno 20] Not a directory")>>]}
    ELSE {[Same EXCEPT !.out = listing(path, long_format, shown(show_all, listed))]
             : listed \in listdir(dirs, files, path)}

\* list_files once the command is split
list_parts(parts, flagged) ==
    list_path(IF flagged
              THEN IF Len(parts) > 2 THEN os_path_join(current_dir, parts[3]) ELSE current_dir
              ELSE IF Len(parts) > 1 THEN os_path_join(current_dir, parts[2])
              ELSE current_dir,
              flagged /\ \E i \in 1..Len(parts[2]) : parts[2][i] = "a",
              flagged /\ \E i \in 1..Len(parts[2]) : parts[2][i] = "l")

list_split(sp) ==
    IF ~sp.ok THEN {[Same EXCEPT !.out = <<errtext("No closing quotation")>>]}
    ELSE list_parts(sp.parts, Len(sp.parts) > 1 /\ startswith(sp.parts[2], <<"-">>))

list_files(command) == list_split(shlex_split(command))

\* what the subprocess may write to its standard output and its standard error
Stdouts == {<<>>, <<"o", "\n">>}
Stderrs == {<<>>, <<"e", "\n">>}

\* "elif stderr": the error block only when there is no output
blocks_elif(stdout, stderr) ==
    IF stdout # <<>> THEN <<stdout>>
    ELSE IF stderr # <<>> THEN << <<"Error: ">> \o stderr >> ELSE <<>>

\* the blocks execute_system_command appends for the captured streams
blocks(stdout, stderr) ==
    (IF stdout # <<>> THEN <<stdout>> ELSE <<>>)
        \o (IF stderr # <<>> THEN << <<"Error: ">> \o stderr >> ELSE <<>>)

\* The commands the model runs in the host shell leave the filesystem alone.
execute_system_command(command) ==
    IF ~isdir(dirs, files, current_dir)
    THEN \* Popen raises: cwd is gone
         {[Same EXCEPT !.process = "failed",
               !.out = << <<"Error executing command: ", "[Errno 2] cwd">> >>]}
    ELSE \* the process is spawned; the method goes on in communicate
         {[Same EXCEPT !.process = "started"]}

show_help == {[Same EXCEPT !.out = << <<"\nAvailable commands: ...\n">> >>]}

\* the entries numbered from 0 ("{i}" for "{i+1}")
show_history_from0(hist) ==
    {[Same EXCEPT !.out = [i \in 1..Len(hist) |-> str(i - 1) \o <<": ">> \o hist[i]]]}

\* hist: self.command_history when the method runs
show_history(hist) ==
    {[Same EXCEPT !.out = [i \in 1..Len(hist) |-> str(i) \o <<": ">> \o hist[i]]]}

\* process tables psutil.process_iter may give: cpu is cpu_percent (a number of
\* tenths, or -1 for the None the host gives when it denies it)
ProcessTables ==
    { <<[pid |-> 1, cpu |-> 0], [pid |-> 2, cpu |-> 5]>>,
      <<[pid |-> 3, cpu |-> -1]>> }

Top == 10

\* processes.sort(key=cpu_percent or 0, reverse=True): stable, largest first
RECURSIVE sorted(_)
sorted(ps) ==
    IF ps = <<>> THEN <<>>
    ELSE LET key(q) == IF q.cpu = -1 THEN 0 ELSE q.cpu
             k == CHOOSE i \in 1..Len(ps) :
                      /\ \A j \in 1..Len(ps) : key(ps[j]) <= key(ps[i])
                      /\ \A j \in 1..(i - 1) : key(ps[j]) < key(ps[i])
         IN  <<ps[k]>> \o sorted(SubSeq(ps, 1, k - 1) \o SubSeq(ps, k + 1, Len(ps)))

\* the rows of ps up to the first process whose cpu_percent cannot be formatted
RECURSIVE rows(_)
rows(ps) ==
    IF ps = <<>> THEN <<>>
    ELSE IF Head(ps).cpu = -1 THEN <<errtext("unsupported format string")>>
    ELSE << str(Head(ps).pid) \o <<"\t<name>\t<user>\t">> \o str(Head(ps).cpu)
            \o <<"\t<rss>MB">> >> \o rows(Tail(ps))

show_processes ==
    {[Same EXCEPT !.out = <<errtext("psutil")>>]}
    \cup {[Same EXCEPT !.out = << <<"PID\tNAME\tUSER\tCPU%\tMEMORY">> >>
                                 \o rows(SubSeq(sorted(t), 1,
                                         IF Len(t) < Top THEN Len(t) ELSE Top))]
             : t \in ProcessTables}

show_system_stats ==
    { [Same EXCEPT !.out = << <<"Error getting system stats: ", "psutil">> >>],
      [Same EXCEPT !.out =
          << <<"=== SYSTEM STATISTICS ===">>, <<"CPU Cores: ", "<n>">>,
             <<"CPU Usage per core:">>, <<"  Core ">> \o str(1) \o <<": ", "<usage>", "%">>,
             <<"Memory Total: ", "<total>", " GB">>, <<"Memory Used: ", "<used>", " GB">>,
             <<"Disk Total: ", "<total>", " GB">>, <<"Disk Used: ", "<used>", " GB">> >>] }

---------------------------------------------------------------------------
(* The dispatcher *)

\* the elif chain of execute_command: the method the command goes to and the
\* outcomes that method can have
dispatch(command, hist) ==
    IF lower(command) = <<"e", "x", "i", "t">>
    THEN [handler |-> "quit", outcomes |-> {Same}]
    ELSE IF lower(command) = <<"h", "e", "l", "p">>
    THEN [handler |-> "show_help", outcomes |-> show_help]
    ELSE IF startswith(command, <<"c", "d", " ">>)
    THEN [handler |-> "change_directory", outcomes |-> change_directory(from(command, 3))]
    ELSE IF command = <<"c", "d">>
    THEN [handler |-> "change_directory", outcomes |-> change_directory(<<>>)]
    ELSE IF command = <<"p", "w", "d">>
    THEN [handler |-> "pwd", outcomes |-> print_working_directory]
    ELSE IF command = <<"l", "s">> \/ startswith(command, <<"l", "s", " ">>)
    THEN [handler |-> "list_files", outcomes |-> list_files(command)]
    ELSE IF startswith(command, <<"m", "k", "d", "i", "r", " ">>)
    THEN [handler |-> "make_directory", outcomes |-> make_directory(from(command, 6))]
    ELSE IF startswith(command, <<"r", "m", " ">>)
    THEN [handler |-> "remove_file_or_dir", outcomes |-> remove_file_or_dir(from(command, 3))]
    ELSE IF startswith(command, <<"c", "p", " ">>)
    THEN [handler |-> "copy_file_or_dir", outcomes |-> copy_file_or_dir(command)]
    ELSE IF startswith(command, <<"m", "v", " ">>)
    THEN [handler |-> "move_file_or_dir", outcomes |-> move_file_or_dir(command)]
    ELSE IF command = <<"c", "l", "e", "a", "r">>
    THEN [handler |-> "clear", outcomes |-> {Same}]
    ELSE IF command = <<"h", "i", "s", "t", "o", "r", "y">>
    THEN [handler |-> "show_history", outcomes |-> show_history(hist)]
    ELSE IF command = <<"p", "s">>
    THEN [handler |-> "show_processes", outcomes |-> show_processes]
    ELSE IF command = <<"t", "o", "p">>
    THEN [handler |-> "show_system_stats", outcomes |-> show_system_stats]
    ELSE [handler |-> "execute_system_command", outcomes |-> execute_system_command(command)]

\* the event loop of app.exec_() is dispatching events: it ends when
\* QApplication.quit() is called, and it dispatches nothing while a handler has
\* the thread
running == ~quit /\ pc = "exec_"

\* "clear" run before the echo of the command: the echo stays in the pane
appended_cleared_first(handler, command, out) ==
    IF handler = "clear" THEN << <<"$ ">> \o command >>
    ELSE Append(output_area, <<"$ ">> \o command) \o out

\* the output pane after the echo of the command and the paragraphs `out` of its
\* handler; "clear" is output_area.clear(), after the echo
appended(handler, command, out) ==
    IF handler = "clear" THEN <<>>
    ELSE Append(output_area, <<"$ ">> \o command) \o out

\* execute_command from "self.command_history.append(command)" on: d is the branch
\* of the elif chain the command takes
execute_line(text, command, hist, d) ==
    \E r \in d.outcomes :
        /\ command_history' = hist
        /\ history_index' = Len(hist)
        /\ output_area' = appended(d.handler, command, r.out)
        /\ pc' = IF r.process = "started" THEN "communicate" ELSE "exec_"
        /\ current_dir' = r.dir
        /\ prompt_label' = r.prompt
        /\ dirs' = r.D
        /\ files' = r.F
        /\ quit' = (d.handler = "quit")
        /\ last' = [text |-> text, handler |-> d.handler, process |-> r.process,
                    stdout |-> r.stdout, stderr |-> r.stderr]
        /\ UNCHANGED monitor_label

\* the command recorded once it has run: its handler sees the history without it
execute_stripped_run_first(text, command) ==
    IF command = <<>>
    THEN /\ last' = [text |-> text, handler |-> "return", process |-> "none",
                     stdout |-> <<>>, stderr |-> <<>>]
         /\ UNCHANGED <<current_dir, command_history, history_index, output_area,
                        prompt_label, monitor_label, dirs, files, quit, pc>>
    ELSE execute_line(text, command, Append(command_history, command),
                      dispatch(command, command_history))

\* a command that repeats the one before it not recorded again
execute_stripped_once(text, command) ==
    IF command = <<>>
    THEN /\ last' = [text |-> text, handler |-> "return", process |-> "none",
                     stdout |-> <<>>, stderr |-> <<>>]
         /\ UNCHANGED <<current_dir, command_history, history_index, output_area,
                        prompt_label, monitor_label, dirs, files, quit, pc>>
    ELSE IF command_history # <<>> /\ command_history[Len(command_history)] = command
    THEN execute_line(text, command, command_history, dispatch(command, command_history))
    ELSE execute_line(text, command, Append(command_history, command),
                      dispatch(command, Append(command_history, command)))

\* "if not command: return"
execute_stripped(text, command) ==
    IF command = <<>>
    THEN /\ last' = [text |-> text, handler |-> "return", process |-> "none",
                     stdout |-> <<>>, stderr |-> <<>>]
         /\ UNCHANGED <<current_dir, command_history, history_index, output_area,
                        prompt_label, monitor_label, dirs, files, quit, pc>>
    ELSE execute_line(text, command, Append(command_history, command),
                      dispatch(command, Append(command_history, command)))

\* Return pressed with `text` in the input field
execute_command(text) ==
    /\ running
    /\ submits < MaxSubmits
    /\ submits' = submits + 1
    /\ input_field' = <<>>
    /\ execute_stripped(text, strip(text))

\* the lines the user types
Lines ==
    {
      <<>>,                                                \* ''
      <<" ", "\t">>,                                       \* ' \t'
      <<"c", "d">>,                                        \* 'cd'
      <<"c", "d", " ", "d">>,                              \* 'cd d'
      <<"c", "d", " ", ".", ".">>,                         \* 'cd ..'
      <<"c", "d", " ", "x">>,                              \* 'cd x'
      <<"c", "d", " ", "/", "/", "h">>,                    \* 'cd //h'
      <<"p", "w", "d">>,                                   \* 'pwd'
      <<"l", "s">>,                                        \* 'ls'
      <<"l", "s", " ", "-", "a">>,                         \* 'ls -a'
      <<"m", "k", "d", "i", "r">>,                         \* 'mkdir'
      <<"m", "k", "d", "i", "r", " ", "d", "/", "e">>,     \* 'mkdir d/e'
      <<"r", "m", " ", "x">>,                              \* 'rm x'
      <<"r", "m", " ", "/", "h">>,                         \* 'rm /h'
      <<"c", "p", " ", "f", " ", "g">>,                    \* 'cp f g'
      <<"m", "v", " ", "f", " ", "g">>,                    \* 'mv f g'
      <<"c", "l", "e", "a", "r">>,                         \* 'clear'
      <<"h", "i", "s", "t", "o", "r", "y">>,               \* 'history'
      <<"p", "s">>,                                        \* 'ps'
      <<"t", "o", "p">>,                                   \* 'top'
      <<"H", "E", "L", "P">>,                              \* 'HELP'
      <<"e", "x", "i", "t">>,                              \* 'exit'
      <<"E", "x", "i", "t">>,                              \* 'Exit'
      <<"e", "c", "h", "o">>                               \* 'echo'
    }

Submit == \E text \in Lines : execute_command(text)

\* execute_system_command from the return of process.communicate() on: the
\* subprocess has ended and its captured streams are appended
communicate ==
    /\ ~quit
    /\ pc = "communicate"
    /\ \E stdout \in Stdouts, stderr \in Stderrs :
          /\ output_area' = output_area \o blocks(stdout, stderr)
          /\ last' = [last EXCEPT !.process = "done", !.stdout = stdout, !.stderr = stderr]
    /\ pc' = "exec_"
    /\ UNCHANGED <<current_dir, command_history, history_index, input_field, prompt_label,
                   monitor_label, dirs, files, quit, submits>>

\* lines for the dispatcher's choice of handler: every verb with its operands
\* present, missing and in excess
VerbLines ==
    {
      <<"c", "d">>,                                        \* 'cd'
      <<"c", "d", " ", "d">>,                              \* 'cd d'
      <<"c", "d", "\t", "d">>,                             \* 'cd\td'
      <<"c", "d", "x">>,                                   \* 'cdx'
      <<"p", "w", "d">>,                                   \* 'pwd'
      <<"p", "w", "d", " ", "x">>,                         \* 'pwd x'
      <<"l", "s">>,                                        \* 'ls'
      <<"l", "s", " ", "-", "a">>,                         \* 'ls -a'
      <<"m", "k", "d", "i", "r">>,                         \* 'mkdir'
      <<"m", "k", "d", "i", "r", " ", "d", "/", "e">>,     \* 'mkdir d/e'
      <<"r", "m">>,                                        \* 'rm'
      <<"r", "m", " ", "x">>,                              \* 'rm x'
      <<"c", "p">>,                                        \* 'cp'
      <<"c", "p", " ", "f">>,                              \* 'cp f'
      <<"c", "p", " ", "f", " ", "g">>,                    \* 'cp f g'
      <<"m", "v">>,                                        \* 'mv'
      <<"m", "v", " ", "f">>,                              \* 'mv f'
      <<"m", "v", " ", "f", " ", "g">>,                    \* 'mv f g'
      <<"c", "l", "e", "a", "r">>,                         \* 'clear'
      <<"c", "l", "e", "a", "r", " ", "x">>,               \* 'clear x'
      <<"h", "i", "s", "t", "o", "r", "y">>,               \* 'history'
      <<"p", "s">>,                                        \* 'ps'
      <<"t", "o", "p">>,                                   \* 'top'
      <<"h", "e", "l", "p">>,                              \* 'help'
      <<"H", "E", "L", "P">>,                              \* 'HELP'
      <<"h", "e", "l", "p", " ", "m", "e">>,               \* 'help me'
      <<"e", "x", "i", "t">>,                              \* 'exit'
      <<"E", "x", "i", "t">>,                              \* 'Exit'
      <<"e", "x", "i", "t", " ", "x">>,                    \* 'exit x'
      <<"e", "c", "h", "o">>                               \* 'echo'
    }

SubmitVerb == \E text \in VerbLines : execute_command(text)

\* lines for the built-ins that act on the filesystem: directories made and
\* listed, operands quoted and not
FileLines ==
    {
      <<"m", "k", "d", "i", "r", " ", "a", "/", "b", "/", "c">>,          \* 'mkdir a/b/c'
      <<"m", "k", "d", "i", "r", " ", "d">>,                              \* 'mkdir d'
      <<"m", "k", "d", "i", "r", " ", "f", "/", "x">>,                    \* 'mkdir f/x'
      <<"l", "s", " ", "a", "/", "b">>,                                   \* 'ls a/b'
      <<"l", "s">>,                                                       \* 'ls'
      <<" ", "l", "s", " ">>,                                             \* ' ls '
      <<"l", "s", " ", "-", "a">>,                                        \* 'ls -a'
      <<"l", "s", " ", "/", "h">>,                                        \* 'ls /h'
      <<"l", "s", " ", "-", "a", " ", "/", "h">>,                         \* 'ls -a /h'
      <<"l", "s", " ", "-", "l", " ", "/", "h">>,                         \* 'ls -l /h'
      <<"r", "m", " ", "a">>,                                             \* 'rm a'
      <<"c", "d", " ", "d">>,                                             \* 'cd d'
      <<"c", "p", " ", "\"", "/", "h", "/", "q", " ", "r", "\"", " ", "g">>,   \* 'cp "/h/q r" g'
      <<"c", "p", " ", "/", "h", "/", "q", " ", "r", " ", "g">>,          \* 'cp /h/q r g'
      <<"c", "p", " ", "\"", "f", " ", "g">>,                             \* 'cp "f g'
      <<"m", "v", " ", "'", "/", "h", "/", "q", " ", "r", "'", " ", "g">>,     \* "mv '/h/q r' g"
      <<"m", "v", " ", "f", " ", "'", "g">>,                              \* "mv f 'g"
      <<"e", "c", "h", "o">>                                              \* 'echo'
    }

SubmitFile == \E text \in FileLines : execute_command(text)

\* Up with "history_index >= 0" for "history_index > 0"
KeyUp_from0 ==
    /\ running
    /\ IF command_history # <<>> /\ history_index >= 0
       THEN /\ history_index' = history_index - 1
            /\ input_field' = item(command_history, history_index')
       ELSE UNCHANGED <<history_index, input_field>>
    /\ UNCHANGED <<current_dir, command_history, output_area, prompt_label, monitor_label,
                   dirs, files, quit, pc, submits, last>>

\* keyPressEvent, Qt.Key_Up
KeyUp ==
    /\ running
    /\ IF command_history # <<>> /\ history_index > 0
       THEN /\ history_index' = history_index - 1
            /\ input_field' = item(command_history, history_index')
       ELSE UNCHANGED <<history_index, input_field>>
    /\ UNCHANGED <<current_dir, command_history, output_area, prompt_label, monitor_label,
                   dirs, files, quit, pc, submits, last>>

\* Down past the newest command leaving the recalled text in the input field
KeyDown_kept ==
    /\ running
    /\ IF command_history # <<>> /\ history_index < Len(command_history) - 1
       THEN /\ history_index' = history_index + 1
            /\ input_field' = item(command_history, history_index')
       ELSE /\ history_index' = Len(command_history)
            /\ UNCHANGED input_field
    /\ UNCHANGED <<current_dir, command_history, output_area, prompt_label, monitor_label,
                   dirs, files, quit, pc, submits, last>>

\* keyPressEvent, Qt.Key_Down
KeyDown ==
    /\ running
    /\ IF command_history # <<>> /\ history_index < Len(command_history) - 1
       THEN /\ history_index' = history_index + 1
            /\ input_field' = item(command_history, history_index')
       ELSE /\ history_index' = Len(command_history)
            /\ input_field' = <<>>
    /\ UNCHANGED <<current_dir, command_history, output_area, prompt_label, monitor_label,
                   dirs, files, quit, pc, submits, last>>

\* what the monitor label shows after a refresh: a readout, or the fallback text
MonitorTexts ==
    { <<"CPU: ", "<cpu>", "% | Memory: ", "<mem>", "% | Disk: ", "<disk>", "%">>,
      <<"System monitor unavailable">> }

\* the refresh reporting a failed query in the output pane as well
update_system_monitor_reporting ==
    /\ running
    /\ \E t \in MonitorTexts :
          /\ monitor_label' = t
          /\ output_area' = IF t = <<"System monitor unavailable">>
                            THEN Append(output_area, t) ELSE output_area
    /\ UNCHANGED <<current_dir, command_history, history_index, input_field,
                   prompt_label, dirs, files, quit, pc, submits, last>>

\* the timer's timeout
update_system_monitor ==
    /\ running
    /\ \E t \in MonitorTexts : monitor_label' = t
    /\ UNCHANGED <<current_dir, command_history, history_index, output_area, input_field,
                   prompt_label, dirs, files, quit, pc, submits, last>>

\* the session of a freshly constructed TerminalWidget, on a small host tree:
\* /h (the home directory) holding the file "q r" and the named pipe s, and
\* /w (the start directory) holding d/, f and .p
Init ==
    /\ current_dir = StartDir
    /\ command_history = <<>>
    /\ history_index = -1
    /\ output_area = << <<"\nPython Terminal Emulator\nType 'help' for available commands\nCurrent directory: ">>
                        \o StartDir \o <<"\n">> >>
    /\ input_field = <<>>
    /\ prompt_label = <<Login, "@pyterm:$ ">>
    /\ monitor_label = <<>>
    /\ dirs = {<<>>, << <<"h">> >>, << <<"w">> >>, << <<"w">>, <<"d">> >>}
    /\ files = {<< <<"w">>, <<"f">> >>, << <<"w">>, <<".", "p">> >>,
                << <<"h">>, <<"q", " ", "r">> >>, << <<"h">>, <<"s">> >>}
    /\ quit = FALSE
    /\ pc = "exec_"
    /\ submits = 0
    /\ last = [text |-> <<>>, handler |-> "", process |-> "none",
               stdout |-> <<>>, stderr |-> <<>>]

Next == Submit \/ communicate \/ KeyUp \/ KeyDown \/ update_system_monitor

Spec == Init /\ [][Next]_vars

NextVerbs == SubmitVerb \/ communicate \/ KeyUp \/ KeyDown \/ update_system_monitor

\* the same program, typing the lines of VerbLines
SpecVerbs == Init /\ [][NextVerbs]_vars

NextFiles == SubmitFile \/ communicate \/ KeyUp \/ KeyDown \/ update_system_monitor

\* the same program, typing the lines of FileLines
SpecFiles == Init /\ [][NextFiles]_vars

---------------------------------------------------------------------------
(* Properties.  A step in which Return is pressed is one that counts a      *)
(* submit; the line typed is last'.text and the command is that line        *)
(* stripped.                                                                *)

Returned == submits' = submits + 1

Cmd == strip(last.text)

\* the echo of the command in the output pane
Echo(cmd) == <<"$ ">> \o cmd

\* the paragraphs a Return step appended after the echo of its command
Emitted == SubSeq(output_area', Len(output_area) + 2, Len(output_area'))

EchoedThen(E) == output_area' = Append(output_area, Echo(Cmd')) \o E

Blank(text) == \A i \in 1..Len(text) : text[i] \in {" ", "\t"}

IsCd(cmd) == cmd = <<"c", "d">> \/ startswith(cmd, <<"c", "d", " ">>)

\* the word "exit" in any letter case
IsExitWord(cmd) ==
    /\ Len(cmd) = 4
    /\ cmd[1] \in {"e", "E"} /\ cmd[2] \in {"x", "X"}
    /\ cmd[3] \in {"i", "I"} /\ cmd[4] \in {"t", "T"}

\* the absolute path of a node of the tree, one slash before each name
RECURSIVE canon(_)
canon(node) ==
    IF node = <<>> THEN <<"/">>
    ELSE IF Len(node) = 1 THEN <<"/">> \o node[1]
    ELSE canon(SubSeq(node, 1, Len(node) - 1)) \o <<"/">> \o node[Len(node)]

TwoSlashes(p) == startswith(p, <<"/", "/">>) /\ ~startswith(p, <<"/", "/", "/">>)

\* C1: `cd P` with P not resolving (joined with current_dir and normalized) to an
\* existing directory leaves current_dir as it was and appends, after the echo,
\* exactly the line "Error: Directory not found: P" with P as typed.
C1_CdMissingDirectory ==
    [][(/\ Returned
        /\ startswith(Cmd', <<"c", "d", " ">>)
        /\ ~isdir(dirs, files, abspath(os_path_join(current_dir, from(Cmd', 3)))))
       => /\ current_dir' = current_dir
          /\ EchoedThen(<< <<"Error: Directory not found: ">> \o from(Cmd', 3) >>)]_vars

\* `cd x` was refused in the start directory: the error names x, not /w/x
C1_Witness ==
    /\ Cmd = <<"c", "d", " ", "x">>
    /\ current_dir = StartDir
    /\ output_area[Len(output_area)] = <<"Error: Directory not found: ", "x">>

C3_OnlyCdMovesSession ==
    [][/\ current_dir' # current_dir
          => (Returned /\ IsCd(Cmd') /\ isdir(dirs, files, current_dir'))
       /\ (Returned /\ ~IsExitWord(Cmd')) => ~quit']_vars

\* `rm x` failed on a path that does not exist, and the session is where it was
C3_Witness ==
    /\ Cmd = <<"r", "m", " ", "x">>
    /\ output_area[Len(output_area)] = errtext("[Errno] remove")
    /\ current_dir = StartDir
    /\ ~quit

C5_BlankLine ==
    [][(Returned /\ Blank(last'.text))
       => /\ UNCHANGED <<command_history, history_index, current_dir, output_area,
                         dirs, files, quit>>
          /\ last'.handler = "return"
          /\ last'.process = "none"]_vars

\* a whitespace-only line was submitted after a command
C5_Witness ==
    /\ last.text = <<" ", "\t">>
    /\ Len(command_history) = 1
    /\ submits = 2

\* C6 as stated: 0 <= history_index <= len(command_history) in every state.
C6_CursorRange_Stated == 0 <= history_index /\ history_index <= Len(command_history)

\* C6 amended: -1 <= history_index <= len(command_history), and history_index is
\* -1 only while the history is empty (a fresh session).
C6_CursorRange ==
    /\ -1 <= history_index
    /\ history_index <= Len(command_history)
    /\ history_index = -1 => command_history = <<>>

\* Up was pressed twice after two commands: the cursor is at the oldest one
C6_Witness ==
    /\ Len(command_history) = 2
    /\ history_index = 0
    /\ input_field = command_history[1]

\* the first word of a stripped command
FirstToken(cmd) ==
    IF \A i \in 1..Len(cmd) : cmd[i] \notin {" ", "\t"} THEN cmd
    ELSE SubSeq(cmd, 1, (CHOOSE i \in 1..Len(cmd) :
                            cmd[i] \in {" ", "\t"}
                            /\ \A j \in 1..(i - 1) : cmd[j] \notin {" ", "\t"}) - 1)

BuiltinVerbs ==
    { <<"c", "d">>, <<"p", "w", "d">>, <<"l", "s">>, <<"m", "k", "d", "i", "r">>,
      <<"r", "m">>, <<"c", "p">>, <<"m", "v">>, <<"c", "l", "e", "a", "r">>,
      <<"h", "i", "s", "t", "o", "r", "y">>, <<"p", "s">>, <<"t", "o", "p">> }

IsBuiltin(word) ==
    \/ word \in BuiltinVerbs
    \/ lower(word) \in {<<"e", "x", "i", "t">>, <<"h", "e", "l", "p">>}

\* C7: a line goes to execute_system_command exactly when its first word is not a
\* built-in verb.
C7_ExternalIffNotBuiltin ==
    last.handler \notin {"", "return"}
    => (last.handler = "execute_system_command" <=> ~IsBuiltin(FirstToken(Cmd)))

\* mkdir or rm with no path, cp or mv with fewer than two operands
MissingOperand(cmd) ==
    /\ shlex_split(cmd).ok
    /\ \/ /\ shlex_split(cmd).parts[1] \in {<<"m", "k", "d", "i", "r">>, <<"r", "m">>}
          /\ Len(shlex_split(cmd).parts) < 2
       \/ /\ shlex_split(cmd).parts[1] \in {<<"c", "p">>, <<"m", "v">>}
          /\ Len(shlex_split(cmd).parts) < 3

MissingArgumentLines ==
    { <<"Error: mkdir requires a directory name">>, <<"Error: rm requires a path">>,
      <<"Error: cp requires source and destination">>,
      <<"Error: mv requires source and destination">> }

\* C8: mkdir, rm, cp or mv without its operands ends with a MissingArgument line
\* in the pane and spawns no subprocess.
C8_MissingOperand ==
    (last.handler \notin {"", "return"} /\ MissingOperand(Cmd))
    => /\ last.process = "none"
       /\ output_area[Len(output_area)] \in MissingArgumentLines

\* C9: the program ends only in a Return step whose command is exit in some letter
\* case, every such step ends it, and once it has ended nothing of the session
\* changes again.
C9_OnlyExitTerminates ==
    [][/\ (quit' /\ ~quit) => (Returned /\ IsExitWord(Cmd'))
       /\ (Returned /\ IsExitWord(Cmd')) => quit'
       /\ quit => UNCHANGED <<current_dir, command_history, history_index, output_area,
                              dirs, files>>]_vars

\* the program ended on "Exit", after an earlier command
C9_Witness ==
    /\ quit
    /\ Cmd = <<"E", "x", "i", "t">>
    /\ Len(command_history) = 2

\* the paragraphs the return from communicate appended
Captured == SubSeq(output_area', Len(output_area) + 1, Len(output_area'))

\* C10: when the subprocess of an external command has ended, the paragraphs
\* appended to the pane are the captured stdout, if it is not empty, and then
\* "Error: " with the captured stderr, if that is not empty, and nothing else.
C10_StdoutThenStderr ==
    [][(pc = "communicate" /\ pc' = "exec_")
       => /\ last'.handler = "execute_system_command" /\ last'.process = "done"
          /\ SubSeq(output_area', 1, Len(output_area)) = output_area
          /\ last'.stdout # <<>> <=> \E i \in 1..Len(Captured) : Captured[i] = last'.stdout
          /\ last'.stderr # <<>>
               <=> \E i \in 1..Len(Captured) : Captured[i] = <<"Error: ">> \o last'.stderr
          /\ Len(Captured) = (IF last'.stdout # <<>> THEN 1 ELSE 0)
                               + (IF last'.stderr # <<>> THEN 1 ELSE 0)
          /\ (last'.stdout # <<>> /\ last'.stderr # <<>>)
               => (Captured[1] = last'.stdout
                   /\ Captured[2] = <<"Error: ">> \o last'.stderr)]_vars

\* an external command wrote to both streams: the pane ends with both blocks
C10_Witness ==
    /\ last.handler = "execute_system_command"
    /\ last.stdout # <<>> /\ last.stderr # <<>>
    /\ Len(output_area) >= 2
    /\ output_area[Len(output_area) - 1] = last.stdout
    /\ output_area[Len(output_area)] = <<"Error: ">> \o last.stderr

\* the prefixes of a path that end with one of its components: a, a/b, a/b/c
PathPrefixes(P) ==
    {SubSeq(P, 1, k) : k \in {j \in 1..Len(P) :
                                 P[j] # "/" /\ (j = Len(P) \/ P[j + 1] = "/")}}

\* what is at path P, taken from the session's directory, in the tree (D, F)
At(D, F, P) == lookup(D, F, os_path_join(current_dir, P))

\* `cell` stands in the line between blanks
Contains(line, cell) ==
    \E k \in 0..(Len(line) - Len(cell)) :
        /\ SubSeq(line, k + 1, k + Len(cell)) = cell
        /\ k = 0 \/ line[k] = " "
        /\ k + Len(cell) = Len(line) \/ line[k + Len(cell) + 1] = " "

\* the Return step listed `cell` in one of the lines it emitted
Listed(cell) == \E i \in 1..Len(Emitted) : Contains(Emitted[i], cell)

\* C11: `mkdir P`, no component of P being a file, leaves every prefix of P a
\* directory and reports "Created directory: P"; when P is a directory already it
\* reports the same and leaves the filesystem as it was; and `ls Q` lists every
\* directory n in Q (not hidden) as "n/".
C11_MkdirIdempotent ==
    [][Returned =>
         /\ (/\ startswith(Cmd', <<"m", "k", "d", "i", "r", " ">>)
             /\ \A Q \in PathPrefixes(from(Cmd', 6)) :
                    At(dirs, files, Q).kind \in {"dir", "none"})
            => /\ \A Q \in PathPrefixes(from(Cmd', 6)) : At(dirs', files', Q).kind = "dir"
               /\ EchoedThen(<< <<"Created directory: ">> \o from(Cmd', 6) >>)
               /\ files' = files
               /\ dirs \subseteq dirs'
               /\ At(dirs, files, from(Cmd', 6)).kind = "dir" => dirs' = dirs
         /\ (/\ startswith(Cmd', <<"l", "s", " ">>)
             /\ Cmd'[4] # "-"
             /\ At(dirs, files, from(Cmd', 3)).kind = "dir")
            => \A n \in dirs :
                   (/\ n # <<>>
                    /\ parent(n) = At(dirs, files, from(Cmd', 3)).node
                    /\ n[Len(n)][1] # ".")
                   => Listed(n[Len(n)] \o <<"/">>)]_vars

\* `mkdir a/b/c` and then `ls a/b`: a, a/b and a/b/c are directories of the start
\* directory and the listing is the one cell "c/"
C11_Witness ==
    /\ command_history = << <<"m", "k", "d", "i", "r", " ", "a", "/", "b", "/", "c">>,
                            <<"l", "s", " ", "a", "/", "b">> >>
    /\ {StartNode \o << <<"a">> >>, StartNode \o << <<"a">>, <<"b">> >>,
        StartNode \o << <<"a">>, <<"b">>, <<"c">> >>} \subseteq dirs
    /\ output_area[Len(output_area)] = <<"c", "/", " ">>

\* `mkdir a/b/c` twice: the second reports the directory created as the first did
C11_WitnessAgain ==
    /\ command_history = << <<"m", "k", "d", "i", "r", " ", "a", "/", "b", "/", "c">>,
                            <<"m", "k", "d", "i", "r", " ", "a", "/", "b", "/", "c">> >>
    /\ output_area[Len(output_area)]
         = <<"Created directory: ", "a", "/", "b", "/", "c">>
    /\ output_area[Len(output_area) - 2] = output_area[Len(output_area)]

\* `ls` with no flag, and `ls -a`, with or without a path
LsPlain(cmd) ==
    \/ cmd = <<"l", "s">>
    \/ startswith(cmd, <<"l", "s", " ">>) /\ cmd[4] # "-"

LsAll(cmd) ==
    \/ cmd = <<"l", "s", " ", "-", "a">>
    \/ startswith(cmd, <<"l", "s", " ", "-", "a", " ">>)

\* the directory such a command lists, or NoNode when it names none
LsTarget(cmd) ==
    IF cmd \in {<<"l", "s">>, <<"l", "s", " ", "-", "a">>}
    THEN lookup(dirs, files, current_dir)
    ELSE IF LsAll(cmd) THEN At(dirs, files, from(cmd, 6))
    ELSE At(dirs, files, from(cmd, 3))

\* the Return step listed the entry named n, as a file or as a directory
ListedEntry(n) == Listed(n) \/ Listed(n \o <<"/">>)

\* C12: `ls` on a directory lists every entry whose name does not start with "."
\* and none whose name does, and `ls -a` on it lists the entries whose name
\* starts with "." besides.
C12_LsAllSuperset ==
    [][(Returned /\ (LsPlain(Cmd') \/ LsAll(Cmd')) /\ LsTarget(Cmd').kind = "dir")
       => \A n \in children(dirs, files, LsTarget(Cmd').node) :
              /\ LsPlain(Cmd') => (ListedEntry(n) <=> n[1] # ".")
              /\ (LsAll(Cmd') /\ n[1] = ".") => ListedEntry(n)]_vars

\* C13: in every state in which an external command has been started and its
\* subprocess has not ended, the timer's refresh of the monitor is enabled.
C13_RefreshWhileBlocked ==
    (last.handler = "execute_system_command" /\ last.process = "started")
    => ENABLED update_system_monitor

\* C14: a step that writes the monitor readout, to the readout or to the text it
\* shows when the query fails, leaves current_dir, the history, the cursor, the
\* output pane, the input field, the prompt and the filesystem as they were; and
\* no Return, no return from a subprocess, writes the readout.
C14_RefreshWritesReadoutOnly ==
    [][/\ monitor_label' # monitor_label
          => /\ monitor_label' \in MonitorTexts
             /\ UNCHANGED <<current_dir, command_history, history_index, output_area,
                            input_field, prompt_label, dirs, files, quit, pc>>
       /\ (Returned \/ pc' # pc) => monitor_label' = monitor_label]_vars

\* the query failed between two key presses: the readout shows the fallback and
\* the cursor is on the command recalled
C14_Witness ==
    /\ monitor_label = <<"System monitor unavailable">>
    /\ Len(command_history) = 1
    /\ history_index = 0
    /\ input_field = command_history[1]
    /\ Len(output_area) >= 2

\* C15: `clear` leaves the output pane empty, current_dir and the filesystem as
\* they were, and the history as it was with the `clear` line after it.
C15_ClearOnlyPane ==
    [][(Returned /\ Cmd' = <<"c", "l", "e", "a", "r">>)
       => /\ output_area' = <<>>
          /\ current_dir' = current_dir
          /\ SubSeq(command_history', 1, Len(command_history)) = command_history
          /\ Len(command_history') = Len(command_history) + 1
          /\ UNCHANGED <<prompt_label, monitor_label, dirs, files, quit, pc>>]_vars

\* `clear` after `cd d`: the pane is empty, the session is in d and the history
\* holds both lines
C15_Witness ==
    /\ command_history = << <<"c", "d", " ", "d">>, <<"c", "l", "e", "a", "r">> >>
    /\ output_area = <<>>
    /\ current_dir = StartDir \o <<"/", "d">>

\* the place of the quote that closes the one at place 4 of the command
Closing(cmd) == CHOOSE j \in 5..Len(cmd) :
                    cmd[j] = cmd[4] /\ \A k \in 5..(j - 1) : cmd[k] # cmd[4]

\* `cp` or `mv`, a quoted first operand and a plain second one
QuotedFirst(cmd) ==
    /\ startswith(cmd, <<"c", "p", " ">>) \/ startswith(cmd, <<"m", "v", " ">>)
    /\ Len(cmd) > 4
    /\ cmd[4] \in {"'", "\""}
    /\ \E j \in 5..(Len(cmd) - 2) : cmd[j] = cmd[4]
    /\ cmd[Closing(cmd) + 1] = " "
    /\ \A k \in 1..Len(cmd) : cmd[k] # "\\"
    /\ \A k \in (Closing(cmd) + 2)..Len(cmd) : cmd[k] \notin {" ", "\t", "'", "\""}

FirstOperand(cmd) == SubSeq(cmd, 5, Closing(cmd) - 1)

SecondOperand(cmd) == from(cmd, Closing(cmd) + 1)

\* `cp` or `mv` with one quote character in all: the quote is not closed
Unterminated(cmd) ==
    /\ startswith(cmd, <<"c", "p", " ">>) \/ startswith(cmd, <<"m", "v", " ">>)
    /\ Cardinality({k \in 1..Len(cmd) : cmd[k] \in {"'", "\""}}) = 1
    /\ \A k \in 1..Len(cmd) : cmd[k] # "\\"

\* the Return step did what outcome r says
Did(r) == EchoedThen(r.out) /\ current_dir' = r.dir /\ dirs' = r.D /\ files' = r.F

\* C16: `cp "A" B` and `mv "A" B`, A holding blanks, copy and move with the two
\* operands A and B; `cp` and `mv` with a quote left open append one line
\* starting with "Error: " and leave current_dir and the filesystem as they were,
\* the program running.
C16_QuotedOperands ==
    [][Returned =>
         /\ (QuotedFirst(Cmd') /\ Cmd'[1] = "c")
            => \E r \in copy_paths(FirstOperand(Cmd'), SecondOperand(Cmd'),
                                   os_path_join(current_dir, FirstOperand(Cmd')),
                                   os_path_join(current_dir, SecondOperand(Cmd'))) : Did(r)
         /\ (QuotedFirst(Cmd') /\ Cmd'[1] = "m")
            => \E r \in move_done(FirstOperand(Cmd'), SecondOperand(Cmd'),
                                  shutil_move(os_path_join(current_dir, FirstOperand(Cmd')),
                                              os_path_join(current_dir, SecondOperand(Cmd')))) :
                   Did(r)
         /\ Unterminated(Cmd')
            => /\ Len(Emitted) = 1
               /\ Emitted[1][1] = "Error: "
               /\ UNCHANGED <<current_dir, dirs, files, quit, pc>>]_vars

\* `cp "/h/q r" g` copied the file "q r" of /h to g in the start directory
C16_Witness ==
    /\ Cmd = <<"c", "p", " ", "\"", "/", "h", "/", "q", " ", "r", "\"", " ", "g">>
    /\ StartNode \o << <<"g">> >> \in files
    /\ << <<"h">>, <<"q", " ", "r">> >> \in files
    /\ output_area[Len(output_area)]
         = <<"Copied file: ", "/", "h", "/", "q", " ", "r", " to ", "g">>

\* `mv f 'g` was refused with an error line and f is where it was
C16_WitnessOpen ==
    /\ Cmd = <<"m", "v", " ", "f", " ", "'", "g">>
    /\ output_area[Len(output_area)] = errtext("No closing quotation")
    /\ StartNode \o << <<"f">> >> \in files

Trimmed(text) ==
    LET inked == {k \in 1..Len(text) : text[k] \notin {" ", "\t"}}
    IN  IF inked = {} THEN <<>>
        ELSE SubSeq(text, CHOOSE i \in inked : \A k \in inked : i <= k,
                          CHOOSE j \in inked : \A k \in inked : k <= j)

\* C18: Return on a line that is not blank appends the trimmed line to the
\* history, whose earlier entries stay, and leaves the cursor at the new length
\* of the history; no other step changes the history.
C18_HistoryAppendOnly ==
    [][/\ (Returned /\ ~Blank(last'.text))
          => /\ command_history' = Append(command_history, Trimmed(last'.text))
             /\ history_index' = Len(command_history')
       /\ ~Returned => command_history' = command_history]_vars

\* ' ls ' after `ls`: the history holds ls twice and the cursor is at its end
C18_Witness ==
    /\ last.text = <<" ", "l", "s", " ">>
    /\ command_history = << <<"l", "s">>, <<"l", "s">> >>
    /\ history_index = 2

\* C19: while the program takes key presses, Up with the cursor above 0 leaves it
\* one lower and the entry there in the input field, and Up with the cursor at 0
\* leaves it at 0; Down with the cursor below len - 1 leaves it one higher and
\* the entry there in the input field, and Down with the cursor at len - 1 or
\* above leaves it at len and the input field empty; neither changes the
\* history or current_dir.
C19_RecallNavigation ==
    running =>
      /\ ENABLED KeyUp
      /\ ENABLED KeyDown
      /\ history_index > 0
         => ~ENABLED (KeyUp /\ ~(/\ history_index' = history_index - 1
                                 /\ input_field' = command_history[history_index' + 1]))
      /\ history_index = 0 => ~ENABLED (KeyUp /\ history_index' # 0)
      /\ history_index < Len(command_history) - 1
         => ~ENABLED (KeyDown /\ ~(/\ history_index' = history_index + 1
                                   /\ input_field' = command_history[history_index' + 1]))
      /\ history_index >= Len(command_history) - 1
         => ~ENABLED (KeyDown /\ ~(/\ history_index' = Len(command_history)
                                   /\ input_field' = <<>>))
      /\ ~ENABLED ((KeyUp \/ KeyDown)
                   /\ (command_history' # command_history \/ current_dir' # current_dir))

\* Up was pressed once after two commands: the cursor is on the newer one, which
\* is in the input field
C19_Witness ==
    /\ Len(command_history) = 2
    /\ history_index = 1
    /\ input_field = command_history[2]

====
